---- MODULE Spec2Model ----
(***************************************************************************)
(* A model of float_eq_derive (float_eq_derive/src/lib.rs): the attribute  *)
(* macro derive_float_eq and the six derive macros it requests.            *)
(*                                                                         *)
(* One behaviour is the expansion of one annotated declaration by the      *)
(* compiler: either `#[derive_float_eq(args)] item` (mode "attr"), whose   *)
(* output is a `#[derive(..)] #[float_eq(args)] item` that the compiler    *)
(* then expands derive by derive, or a direct `#[derive(Trait)]` on an     *)
(* item carrying `#[float_eq(args)]` (mode "derive").                      *)
(*                                                                         *)
(* Token streams are sequences of strings.  The module `read` of the crate *)
(* (name_type_pair, all_fields_info, float_eq_attr, FieldList::expand and  *)
(* the parameter accessors) is modelled from the specification.            *)
(***************************************************************************)
EXTENDS Integers, Sequences, FiniteSets, TLC

VARIABLES
    item,       \* the annotated declaration
    args,       \* the attribute arguments, in source order
    mode,       \* "attr": #[derive_float_eq(..)];  "derive": #[derive(T)]
    pc,         \* "start", "derives", "done"
    attrOut,    \* the output of derive_float_eq (mode "attr")
    pending,    \* the derives the compiler still has to expand, in order
    out,        \* the outputs of the derive macros expanded so far, in order
    calls,      \* the calls of read::all_fields_info made so far, in order
    lastCall    \* the last call of an emitted comparator and what it returned

vars == <<item, args, mode, pc, attrOut, pending, out, calls, lastCall>>

\* ------------------------------------------------------------------ bounds

\* The largest number of fields of a declaration.
MaxFields == 2

\* ------------------------------------------------------------------ inputs

ParamNames == {"ulps_epsilon", "debug_ulps_diff", "all_epsilon"}
TypeNames == {"PUlps", "PDiff"}
Idents == {"P", "Q"}
Visibilities == {<<>>, <<"pub">>}
TraitNames ==
    {"FloatEqUlpsEpsilon", "FloatEq", "FloatEqDebugUlpsDiff", "AssertFloatEq",
     "FloatEqAll", "AssertFloatEqAll"}

\* The i-th field of a declaration: its name (the index, as an integer
\* literal token, in a tuple struct) and its type.
FieldType(i) == IF i % 2 = 1 THEN "f32" ELSE "f64"
NamedField(i) == [name |-> "f" \o ToString(i), ty |-> FieldType(i)]
TupleField(i) == [name |-> ToString(i - 1), ty |-> FieldType(i)]

NoFields == <<>>

\* Declarations: structs with named fields, tuple structs, unit structs, and
\* an enum (a declaration that is no struct).
Items ==
    {[kind |-> k, ident |-> id, vis |-> v,
      fields |-> [i \in 1..n |-> IF k = "Named" THEN NamedField(i) ELSE TupleField(i)]] :
        k \in {"Named", "Tuple"}, id \in Idents, v \in Visibilities, n \in 0..MaxFields}
    \cup
    {[kind |-> k, ident |-> id, vis |-> v, fields |-> NoFields] :
        k \in {"Unit", "Enum"}, id \in Idents, v \in Visibilities}

\* One attribute argument: `name = "value"` when wellformed, anything else
\* written under that name (`name = 5`, `name("x")`, ...) when not.
Args ==
    {[name |-> n, value |-> v, wellformed |-> TRUE] : n \in ParamNames, v \in TypeNames}
    \cup {[name |-> n, value |-> "?", wellformed |-> FALSE] : n \in ParamNames}

\* Argument lists: each parameter name at most once, in any order.
ArgLists ==
    {s \in UNION {[1..n -> Args] : n \in 0..Cardinality(ParamNames)} :
        \A i, j \in DOMAIN s : s[i].name = s[j].name => i = j}

\* ------------------------------------------------------------------ results

Ok(v) == [ok |-> TRUE, val |-> v]
Err(e) == [ok |-> FALSE, err |-> e]

\* ------------------------------------------------------------------ read

\* read::name_type_pair: a name/type pair, or an error.
name_type_pair(arg) ==
    IF arg.wellformed
        THEN Ok([name |-> arg.name, value |-> arg.value])
        ELSE Err([kind |-> "MalformedParameterValue", param |-> arg.name])

\* read::all_fields_info: the shape of the declaration and its fields in
\* declaration order, or UnsupportedShape naming the trait being derived.
all_fields_info(trait_name, input) ==
    IF input.kind \in {"Named", "Tuple", "Unit"}
        THEN Ok([ty |-> input.kind, fields |-> input.fields])
        ELSE Err([kind |-> "UnsupportedShape", trait |-> trait_name])

\* FieldList::expand: the fields its closure is applied to, one after the
\* other in declaration order; the i-th result is that of the i-th field.
expand(fields) == fields.fields

\* The value given to parameter `name`, <<>> when it is not given.
ParamValue(pairs, name) ==
    LET at == {i \in DOMAIN pairs : pairs[i].val.name = name}
    IN  IF at = {} THEN <<>> ELSE <<pairs[CHOOSE i \in at : TRUE].val.value>>

\* read::float_eq_attr: the parameters of #[float_eq(..)]; fails when an
\* argument is no name/type pair.
float_eq_attr(input) ==
    LET pairs == [i \in DOMAIN input.attrs |-> name_type_pair(input.attrs[i])]
        bad == {i \in DOMAIN pairs : ~pairs[i].ok}
    IN  IF bad # {}
            THEN Err(pairs[CHOOSE i \in bad : \A j \in bad : i <= j].err)
            ELSE Ok([struct_name |-> input.ident,
                     ulps_epsilon |-> ParamValue(pairs, "ulps_epsilon"),
                     debug_ulps_diff |-> ParamValue(pairs, "debug_ulps_diff"),
                     all_epsilon |-> ParamValue(pairs, "all_epsilon")])

MissingParam(name) == Err([kind |-> "MissingRequiredParameter", param |-> name])

\* FloatEqAttr::ulps_epsilon_type, ::debug_ulps_diff, ::all_epsilon_type.
ulps_epsilon_type(params) ==
    IF params.ulps_epsilon = <<>> THEN MissingParam("ulps_epsilon")
    ELSE Ok(params.ulps_epsilon[1])

debug_ulps_diff(params) ==
    IF params.debug_ulps_diff = <<>> THEN MissingParam("debug_ulps_diff")
    ELSE Ok(params.debug_ulps_diff[1])

all_epsilon_type(params) ==
    IF params.all_epsilon = <<>> THEN MissingParam("all_epsilon")
    ELSE Ok(params.all_epsilon[1])

\* ------------------------------------------------------------------ quote!

RECURSIVE Flatten(_)
\* `#(#xs)*`: the token streams one after the other.
Flatten(xs) == IF xs = <<>> THEN <<>> ELSE Head(xs) \o Flatten(Tail(xs))

RECURSIVE Separated(_, _)
\* `#(#xs)sep*`: the token streams with sep between them.
Separated(xs, sep) ==
    IF xs = <<>> THEN <<>>
    ELSE IF Len(xs) = 1 THEN Head(xs)
    ELSE Head(xs) \o <<sep>> \o Separated(Tail(xs), sep)

\* `#(#xs,)*`: every token stream followed by a comma.
Terminated(xs) == Flatten([i \in DOMAIN xs |-> xs[i] \o <<",">>])

\* ------------------------------------------------------------------ derive_float_eq

\* has_arg, were an argument that does not parse looked up by its name too.
has_arg_by_name(arglist, name) ==
    \E i \in DOMAIN arglist : arglist[i].name = name

\* The closure has_arg: some argument parses as a name/type pair of that name.
has_arg(arglist, name) ==
    \E i \in DOMAIN arglist :
        LET nv == name_type_pair(arglist[i])
        IN  IF nv.ok THEN nv.val.name = name ELSE FALSE

\* The error returned when `ulps_epsilon` is not given (the message's
\* backquotes are written as single quotes).
MissingUlpsEpsilon(ident) ==
    [kind |-> "MissingRequiredParameter",
     param |-> "ulps_epsilon",
     msg |-> <<"Missing epsilon ULPs type name required to derive trait.",
               "help: try specifying 'ulps_epsilon = \"" \o ident \o "Ulps\"' in 'derive_float_eq'.">>]

\* The error returned when `debug_ulps_diff` is not given.
MissingDebugUlpsDiff(ident) ==
    [kind |-> "MissingRequiredParameter",
     param |-> "debug_ulps_diff",
     msg |-> <<"Missing debug ULPs diff type name required to derive trait.",
               "help: try specifying 'debug_ulps_diff = \"" \o ident \o "DebugUlpsDiff\"' in 'derive_float_eq'.">>]

\* The required parameters, were `debug_ulps_diff` checked first.
RequiredCheck_diff_first(arglist, ident) ==
    IF ~has_arg(arglist, "debug_ulps_diff") THEN <<MissingDebugUlpsDiff(ident)>>
    ELSE IF ~has_arg(arglist, "ulps_epsilon") THEN <<MissingUlpsEpsilon(ident)>>
    ELSE <<>>

\* The required parameters, were `debug_ulps_diff` not checked.
RequiredCheck_ulps_only(arglist, ident) ==
    IF ~has_arg(arglist, "ulps_epsilon") THEN <<MissingUlpsEpsilon(ident)>> ELSE <<>>

\* The required parameters, checked in this order: the first one missing is
\* the error returned, <<>> when none is.
RequiredCheck(arglist, ident) ==
    IF ~has_arg(arglist, "ulps_epsilon") THEN <<MissingUlpsEpsilon(ident)>>
    ELSE IF ~has_arg(arglist, "debug_ulps_diff") THEN <<MissingDebugUlpsDiff(ident)>>
    ELSE <<>>

\* trait_names, were the two shared-epsilon traits pushed unconditionally.
trait_names_always_all(arglist) ==
    <<"FloatEqUlpsEpsilon", "FloatEq", "FloatEqDebugUlpsDiff", "AssertFloatEq",
      "FloatEqAll", "AssertFloatEqAll">>

\* The vector trait_names.
trait_names(arglist) ==
    <<"FloatEqUlpsEpsilon", "FloatEq", "FloatEqDebugUlpsDiff", "AssertFloatEq">>
    \o (IF has_arg(arglist, "all_epsilon") THEN <<"FloatEqAll", "AssertFloatEqAll">> ELSE <<>>)

\* The token stream `traits`: float_eq::<trait>, for every trait name.
traits(arglist) ==
    LET names == trait_names(arglist)
    IN  [i \in DOMAIN names |-> "float_eq::" \o names[i]]

\* `#[derive(#traits)] #[float_eq(#(#args,)*)] #item`.
Reemitted(arglist, it) == [derive |-> traits(arglist), float_eq |-> arglist, item |-> it]

expand_derive_float_eq(arglist, it) ==
    LET missing == RequiredCheck(arglist, it.ident)
    IN  IF missing # <<>> THEN Err(missing[1]) ELSE Ok(Reemitted(arglist, it))

\* derive_float_eq: the item is parsed as a syn::ItemStruct first; what is
\* no struct is a parse error, and expand_derive_float_eq is never called.
derive_float_eq(arglist, it) ==
    IF it.kind = "Enum"
        THEN Err([kind |-> "ParseError", expected |-> "struct"])
        ELSE expand_derive_float_eq(arglist, it)

\* The syn::DeriveInput a derive macro is given: the item with its
\* #[float_eq(..)] attribute.
DeriveInput(it, arglist) ==
    [kind |-> it.kind, ident |-> it.ident, vis |-> it.vis, fields |-> it.fields,
     attrs |-> arglist]

\* ------------------------------------------------------------------ companion types

CompanionDerives == <<"Clone", "Copy", "Debug", "PartialEq">>

\* companion_type, were the visibility left out of the tuple struct.
companion_type_private_tuple(vis, ty_name, fields, wrapper) ==
    IF fields.ty = "Named" THEN
        vis \o <<"struct", ty_name, "{">>
        \o Terminated([i \in DOMAIN expand(fields) |-> LET field == expand(fields)[i] IN <<field.name, ":", wrapper, "<", field.ty, ">">>])
        \o <<"}">>
    ELSE IF fields.ty = "Tuple" THEN
        <<"struct", ty_name, "(">>
        \o Terminated([i \in DOMAIN expand(fields) |-> LET field == expand(fields)[i] IN <<wrapper, "<", field.ty, ">">>])
        \o <<")", ";">>
    ELSE
        vis \o <<"struct", ty_name, ";">>

\* The declaration of a companion type named ty_name, its field types
\* wrapped in `wrapper`: the match on fields.ty.
companion_type(vis, ty_name, fields, wrapper) ==
    IF fields.ty = "Named" THEN
        vis \o <<"struct", ty_name, "{">>
        \o Terminated([i \in DOMAIN expand(fields) |-> LET field == expand(fields)[i] IN <<field.name, ":", wrapper, "<", field.ty, ">">>])
        \o <<"}">>
    ELSE IF fields.ty = "Tuple" THEN
        vis \o <<"struct", ty_name, "(">>
        \o Terminated([i \in DOMAIN expand(fields) |-> LET field == expand(fields)[i] IN <<wrapper, "<", field.ty, ">">>])
        \o <<")", ";">>
    ELSE
        vis \o <<"struct", ty_name, ";">>

\* An emitted `impl float_eq::<trait> for <struct_name> { type ..; fn .. }`.
Impl(trait_name, struct_name, types, methods) ==
    [trait |-> "float_eq::" \o trait_name, for |-> struct_name, types |-> types,
     methods |-> methods]

\* The output of an emitter: the type declarations (each with its derive
\* attribute) and the impl.
Emitted(decls, impl) == [decls |-> decls, impl |-> impl]

NoMethods == <<>>

expand_float_eq_ulps_epsilon(input) ==
    LET fields == all_fields_info("FloatEqUlpsEpsilon", input)
        params == float_eq_attr(input)
        ulps_name == ulps_epsilon_type(params.val)
    IN  IF ~fields.ok THEN Err(fields.err)
        ELSE IF ~params.ok THEN Err(params.err)
        ELSE IF ~ulps_name.ok THEN Err(ulps_name.err)
        ELSE Ok(Emitted(
                <<[doc |-> <<"doc", "=",
                             "Floating point ULPs epsilon representation derived from "
                                 \o input.ident \o ", used by float_eq.">>,
                   derive |-> CompanionDerives,
                   ty |-> companion_type(input.vis, ulps_name.val, fields.val,
                                         "float_eq::UlpsEpsilon")]>>,
                Impl("FloatEqUlpsEpsilon", input.ident,
                     <<<<"UlpsEpsilon", ulps_name.val>>>>, NoMethods)))

expand_float_eq_debug_ulps_diff(input) ==
    LET fields == all_fields_info("FloatEqDebugUlpsDiff", input)
        params == float_eq_attr(input)
        ulps_name == debug_ulps_diff(params.val)
    IN  IF ~fields.ok THEN Err(fields.err)
        ELSE IF ~params.ok THEN Err(params.err)
        ELSE IF ~ulps_name.ok THEN Err(ulps_name.err)
        ELSE Ok(Emitted(
                <<[doc |-> <<"doc", "(", "hidden", ")">>,
                   derive |-> CompanionDerives,
                   ty |-> companion_type(input.vis, ulps_name.val, fields.val,
                                         "float_eq::DebugUlpsDiff")]>>,
                Impl("FloatEqDebugUlpsDiff", input.ident,
                     <<<<"DebugUlpsDiff", ulps_name.val>>>>, NoMethods)))

\* ------------------------------------------------------------------ FloatEq, FloatEqAll

\* The closure expand_exprs of expand_float_eq: one call per field, on the
\* field of self, with the same field of other and of max_diff; the literal
\* `true` when there is no field.
expand_exprs(fields, method) ==
    LET expanded ==
            [i \in DOMAIN expand(fields) |->
                LET field == expand(fields)[i]
                IN  <<"self", ".", field.name, ".", method, "(",
                  "&", "other", ".", field.name, ",",
                  "&", "max_diff", ".", field.name, ")">>]
    IN  IF expanded = <<>> THEN <<<<"true">>>> ELSE expanded

\* expand_exprs of expand_float_eq_all, without the push of `true`.
expand_exprs_all_no_literal(fields, method) ==
    [i \in DOMAIN expand(fields) |->
        LET field == expand(fields)[i]
        IN  <<"self", ".", field.name, ".", method, "(",
          "&", "other", ".", field.name, ",", "max_diff", ")">>]

\* The closure expand_exprs of expand_float_eq_all: as above, with the one
\* max_diff handed to every field.
expand_exprs_all(fields, method) ==
    LET expanded ==
            [i \in DOMAIN expand(fields) |->
                LET field == expand(fields)[i]
                IN  <<"self", ".", field.name, ".", method, "(",
                  "&", "other", ".", field.name, ",", "max_diff", ")">>]
    IN  IF expanded = <<>> THEN <<<<"true">>>> ELSE expanded

\* The method bodies of FloatEq, were eq_r2nd given the calls of eq_r1st.
float_eq_methods_r2nd_as_r1st(fields) ==
    [eq_abs  |-> Separated(expand_exprs(fields, "eq_abs"), "&&"),
     eq_rmax |-> Separated(expand_exprs(fields, "eq_rmax"), "&&"),
     eq_rmin |-> Separated(expand_exprs(fields, "eq_rmin"), "&&"),
     eq_r1st |-> Separated(expand_exprs(fields, "eq_r1st"), "&&"),
     eq_r2nd |-> Separated(expand_exprs(fields, "eq_r1st"), "&&"),
     eq_ulps |-> Separated(expand_exprs(fields, "eq_ulps"), "&&")]

\* The six method bodies of `impl float_eq::FloatEq`: `#(#eq_abs)&&*`, ...
float_eq_methods(fields) ==
    [eq_abs  |-> Separated(expand_exprs(fields, "eq_abs"), "&&"),
     eq_rmax |-> Separated(expand_exprs(fields, "eq_rmax"), "&&"),
     eq_rmin |-> Separated(expand_exprs(fields, "eq_rmin"), "&&"),
     eq_r1st |-> Separated(expand_exprs(fields, "eq_r1st"), "&&"),
     eq_r2nd |-> Separated(expand_exprs(fields, "eq_r2nd"), "&&"),
     eq_ulps |-> Separated(expand_exprs(fields, "eq_ulps"), "&&")]

\* The six method bodies of `impl float_eq::FloatEqAll`.
float_eq_all_methods(fields) ==
    [eq_abs_all  |-> Separated(expand_exprs_all(fields, "eq_abs_all"), "&&"),
     eq_rmax_all |-> Separated(expand_exprs_all(fields, "eq_rmax_all"), "&&"),
     eq_rmin_all |-> Separated(expand_exprs_all(fields, "eq_rmin_all"), "&&"),
     eq_r1st_all |-> Separated(expand_exprs_all(fields, "eq_r1st_all"), "&&"),
     eq_r2nd_all |-> Separated(expand_exprs_all(fields, "eq_r2nd_all"), "&&"),
     eq_ulps_all |-> Separated(expand_exprs_all(fields, "eq_ulps_all"), "&&")]

NoDecls == <<>>

expand_float_eq(input) ==
    LET fields == all_fields_info("FloatEq", input)
        params == float_eq_attr(input)
        ulps_name == ulps_epsilon_type(params.val)
    IN  IF ~fields.ok THEN Err(fields.err)
        ELSE IF ~params.ok THEN Err(params.err)
        ELSE IF ~ulps_name.ok THEN Err(ulps_name.err)
        ELSE Ok(Emitted(NoDecls,
                Impl("FloatEq", input.ident, <<<<"Epsilon", "Self">>>>,
                     float_eq_methods(fields.val))))

\* expand_float_eq_all, were the parameters read before the fields.
expand_float_eq_all_params_first(input) ==
    LET fields == all_fields_info("FloatEqAll", input)
        params == float_eq_attr(input)
        all_epsilon == all_epsilon_type(params.val)
    IN  IF ~params.ok THEN Err(params.err)
        ELSE IF ~all_epsilon.ok THEN Err(all_epsilon.err)
        ELSE IF ~fields.ok THEN Err(fields.err)
        ELSE Ok(Emitted(NoDecls,
                Impl("FloatEqAll", input.ident, <<<<"AllEpsilon", all_epsilon.val>>>>,
                     float_eq_all_methods(fields.val))))

expand_float_eq_all(input) ==
    LET fields == all_fields_info("FloatEqAll", input)
        params == float_eq_attr(input)
        all_epsilon == all_epsilon_type(params.val)
    IN  IF ~fields.ok THEN Err(fields.err)
        ELSE IF ~params.ok THEN Err(params.err)
        ELSE IF ~all_epsilon.ok THEN Err(all_epsilon.err)
        ELSE Ok(Emitted(NoDecls,
                Impl("FloatEqAll", input.ident, <<<<"AllEpsilon", all_epsilon.val>>>>,
                     float_eq_all_methods(fields.val))))

\* ------------------------------------------------------------------ AssertFloatEq, AssertFloatEqAll

\* `ctor { #(#field_values,)* }`.
Construct(ctor, field_values) == <<ctor, "{">> \o Terminated(field_values) \o <<"}">>

\* The closure expand_diff_fields of expand_assert_float_eq.
expand_diff_fields(fields, method) ==
    [i \in DOMAIN expand(fields) |->
        LET field == expand(fields)[i]
        IN  <<field.name, ":", "self", ".", field.name, ".", method, "(",
          "&", "other", ".", field.name, ")">>]

\* The closure expand_eps_fields of expand_assert_float_eq.
expand_eps_fields(fields, method) ==
    [i \in DOMAIN expand(fields) |->
        LET field == expand(fields)[i]
        IN  <<field.name, ":", "self", ".", field.name, ".", method, "(",
          "&", "other", ".", field.name, ",",
          "&", "max_diff", ".", field.name, ")">>]

\* expand_fields, were the fields given their own tolerance.
expand_fields_own_tolerance(fields, method) ==
    [i \in DOMAIN expand(fields) |->
        LET field == expand(fields)[i]
        IN  <<field.name, ":", "self", ".", field.name, ".", method, "(",
          "&", "other", ".", field.name, ",",
          "&", "max_diff", ".", field.name, ")">>]

\* The closure expand_fields of expand_assert_float_eq_all.
expand_fields(fields, method) ==
    [i \in DOMAIN expand(fields) |->
        LET field == expand(fields)[i]
        IN  <<field.name, ":", "self", ".", field.name, ".", method, "(",
          "&", "other", ".", field.name, ",", "max_diff", ")">>]

\* The eight method bodies of `impl float_eq::AssertFloatEq`.
assert_float_eq_methods(fields, ulps_name, diff_name) ==
    [debug_abs_diff     |-> Construct("Self", expand_diff_fields(fields, "debug_abs_diff")),
     debug_ulps_diff    |-> Construct(diff_name, expand_diff_fields(fields, "debug_ulps_diff")),
     debug_abs_epsilon  |-> Construct("Self", expand_eps_fields(fields, "debug_abs_epsilon")),
     debug_rmax_epsilon |-> Construct("Self", expand_eps_fields(fields, "debug_rmax_epsilon")),
     debug_rmin_epsilon |-> Construct("Self", expand_eps_fields(fields, "debug_rmin_epsilon")),
     debug_r1st_epsilon |-> Construct("Self", expand_eps_fields(fields, "debug_r1st_epsilon")),
     debug_r2nd_epsilon |-> Construct("Self", expand_eps_fields(fields, "debug_r2nd_epsilon")),
     debug_ulps_epsilon |-> Construct(ulps_name, expand_eps_fields(fields, "debug_ulps_epsilon"))]

UlpsAllDebugEpsilon == "::float_eq::UlpsEpsilon::<Self::AllDebugEpsilon>"

\* The six method bodies of `impl float_eq::AssertFloatEqAll`.
assert_float_eq_all_methods(fields) ==
    [debug_abs_all_epsilon  |-> Construct("Self", expand_fields(fields, "debug_abs_all_epsilon")),
     debug_rmax_all_epsilon |-> Construct("Self", expand_fields(fields, "debug_rmax_all_epsilon")),
     debug_rmin_all_epsilon |-> Construct("Self", expand_fields(fields, "debug_rmin_all_epsilon")),
     debug_r1st_all_epsilon |-> Construct("Self", expand_fields(fields, "debug_r1st_all_epsilon")),
     debug_r2nd_all_epsilon |-> Construct("Self", expand_fields(fields, "debug_r2nd_all_epsilon")),
     debug_ulps_all_epsilon |->
         Construct(UlpsAllDebugEpsilon, expand_fields(fields, "debug_ulps_all_epsilon"))]

expand_assert_float_eq(input) ==
    LET fields == all_fields_info("AssertFloatEq", input)
        params == float_eq_attr(input)
        ulps_name == ulps_epsilon_type(params.val)
        diff_name == debug_ulps_diff(params.val)
    IN  IF ~fields.ok THEN Err(fields.err)
        ELSE IF ~params.ok THEN Err(params.err)
        ELSE IF ~ulps_name.ok THEN Err(ulps_name.err)
        ELSE IF ~diff_name.ok THEN Err(diff_name.err)
        ELSE Ok(Emitted(NoDecls,
                Impl("AssertFloatEq", input.ident,
                     <<<<"DebugAbsDiff", "Self">>, <<"DebugEpsilon", "Self">>>>,
                     assert_float_eq_methods(fields.val, ulps_name.val, diff_name.val))))

expand_assert_float_eq_all(input) ==
    LET fields == all_fields_info("AssertFloatEqAll", input)
        params == float_eq_attr(input)
        all_epsilon == all_epsilon_type(params.val)
    IN  IF ~fields.ok THEN Err(fields.err)
        ELSE IF ~params.ok THEN Err(params.err)
        ELSE IF ~all_epsilon.ok THEN Err(all_epsilon.err)
        ELSE Ok(Emitted(NoDecls,
                Impl("AssertFloatEqAll", input.ident, <<<<"AllDebugEpsilon", "Self">>>>,
                     assert_float_eq_all_methods(fields.val))))

\* ------------------------------------------------------------------ running an emitted comparator

RECURSIVE Conjuncts(_)
\* The operands of a chain `a && b && ...`, left to right.
Conjuncts(tokens) ==
    LET at == {k \in DOMAIN tokens : tokens[k] = "&&"}
    IN  IF at = {} THEN <<tokens>>
        ELSE LET k == CHOOSE i \in at : \A j \in at : i <= j
             IN  <<SubSeq(tokens, 1, k - 1)>> \o Conjuncts(SubSeq(tokens, k + 1, Len(tokens)))

RECURSIVE RunAnd(_, _)
\* The evaluation of a chain of && over its operands: left to right, stopping
\* at the first operand that is false.  A literal `true` is true; a call on
\* self.<field> returns what the field's own comparison returns (results).
RunAnd(exprs, results) ==
    IF exprs = <<>> THEN [ret |-> "true", evaluated |-> <<>>]
    ELSE IF Head(exprs) = <<"true">> THEN RunAnd(Tail(exprs), results)
    ELSE IF ~results[Head(exprs)[3]] THEN [ret |-> "false", evaluated |-> <<Head(exprs)[3]>>]
    ELSE LET rest == RunAnd(Tail(exprs), results)
         IN  [ret |-> rest.ret, evaluated |-> <<Head(exprs)[3]>> \o rest.evaluated]

\* A call of an emitted comparator method: a body with no expression in it
\* does not compile (the method returns bool).
RunBody(body, results) ==
    IF body = <<>> THEN [ret |-> "compile_error", evaluated |-> <<>>]
    ELSE RunAnd(Conjuncts(body), results)

\* ------------------------------------------------------------------ state machine

NotExpanded == [ok |-> FALSE, err |-> [kind |-> "NotExpanded"]]
NoCall ==
    [trait |-> "none", method |-> "none", results |-> <<>>, ret |-> "none",
     evaluated |-> <<>>]

\* The argument lists that give all three parameters, wellformed.
CompleteArgLists ==
    {s \in ArgLists : Len(s) = Cardinality(ParamNames) /\ \A i \in DOMAIN s : s[i].wellformed}

FieldNamesOf(it) == {it.fields[i].name : i \in DOMAIN it.fields}

\* The derive macro a path of #[derive(..)] names.
MacroOf(path) == CHOOSE t \in TraitNames : "float_eq::" \o t = path

\* The input of the derive macros: what derive_float_eq re-emitted, or the
\* declaration as written.
Input ==
    IF mode = "attr"
        THEN DeriveInput(attrOut.val.item, attrOut.val.float_eq)
        ELSE DeriveInput(item, args)

\* ShapeCalls, were the fields read by derive_float_eq, once, for the derives.
ShapeCalls_by_orchestrator(macro) ==
    IF macro = "derive_float_eq" THEN <<[fn |-> "read::all_fields_info", by |-> macro]>>
    ELSE <<>>

\* The calls of read::all_fields_info a macro makes.
ShapeCalls(macro) ==
    IF macro = "derive_float_eq" THEN <<>>
    ELSE <<[fn |-> "read::all_fields_info", by |-> macro]>>

Init ==
    /\ item \in Items
    /\ args \in ArgLists
    /\ \/ mode = "attr" /\ pc = "start" /\ pending = <<>>
       \/ mode = "derive" /\ pc = "derives" /\ \E t \in TraitNames : pending = <<t>>
    /\ attrOut = NotExpanded
    /\ out = <<>>
    /\ calls = <<>>
    /\ lastCall = NoCall

\* #[derive(FloatEq, FloatEqAll)] on a declaration that gives every parameter.
InitCmp ==
    /\ item \in Items
    /\ args \in CompleteArgLists
    /\ mode = "derive" /\ pc = "derives" /\ pending = <<"FloatEq", "FloatEqAll">>
    /\ attrOut = NotExpanded
    /\ out = <<>>
    /\ calls = <<>>
    /\ lastCall = NoCall

\* The compiler expands #[derive_float_eq(args)] item, and goes on to the
\* derives of the output.
DeriveFloatEq ==
    /\ pc = "start"
    /\ mode = "attr"
    /\ attrOut' = derive_float_eq(args, item)
    /\ pending' = IF attrOut'.ok
                    THEN [i \in DOMAIN attrOut'.val.derive |-> MacroOf(attrOut'.val.derive[i])]
                    ELSE <<>>
    /\ pc' = IF pending' = <<>> THEN "done" ELSE "derives"
    /\ calls' = calls \o ShapeCalls("derive_float_eq")
    /\ UNCHANGED <<item, args, mode, out, lastCall>>

\* The compiler expands the next derive, and keeps its output or its error.
RunDerive(t, result) ==
    /\ pc = "derives"
    /\ pending # <<>>
    /\ Head(pending) = t
    /\ out' = Append(out, [trait |-> t, res |-> result])
    /\ calls' = calls \o ShapeCalls(t)
    /\ pending' = Tail(pending)
    /\ pc' = IF pending' = <<>> THEN "done" ELSE "derives"
    /\ UNCHANGED <<item, args, mode, attrOut, lastCall>>

derive_float_eq_ulps_epsilon ==
    RunDerive("FloatEqUlpsEpsilon", expand_float_eq_ulps_epsilon(Input))

derive_float_eq_debug_ulps_diff ==
    RunDerive("FloatEqDebugUlpsDiff", expand_float_eq_debug_ulps_diff(Input))

derive_float_eq_attribute ==
    RunDerive("FloatEq", expand_float_eq(Input))

derive_assert_float_eq ==
    RunDerive("AssertFloatEq", expand_assert_float_eq(Input))

derive_float_eq_all ==
    RunDerive("FloatEqAll", expand_float_eq_all(Input))

derive_assert_float_eq_all ==
    RunDerive("AssertFloatEqAll", expand_assert_float_eq_all(Input))

\* A method of the emitted impl of `trait_name` is called, the comparisons of
\* the fields returning `results` (one call is followed in a behaviour).
CallComparator(trait_name) ==
    /\ pc = "done"
    /\ lastCall = NoCall
    /\ \E k \in DOMAIN out :
        /\ out[k].trait = trait_name
        /\ out[k].res.ok
        /\ \E m \in DOMAIN out[k].res.val.impl.methods,
              results \in [FieldNamesOf(item) -> BOOLEAN] :
            LET run == RunBody(out[k].res.val.impl.methods[m], results)
            IN  lastCall' = [trait |-> trait_name, method |-> m, results |-> results,
                             ret |-> run.ret, evaluated |-> run.evaluated]
    /\ UNCHANGED <<item, args, mode, pc, attrOut, pending, out, calls>>

CallFloatEq == CallComparator("FloatEq")

CallFloatEqAll == CallComparator("FloatEqAll")

Next ==
    \/ DeriveFloatEq
    \/ derive_float_eq_ulps_epsilon
    \/ derive_float_eq_debug_ulps_diff
    \/ derive_float_eq_attribute
    \/ derive_assert_float_eq
    \/ derive_float_eq_all
    \/ derive_assert_float_eq_all

Spec == Init /\ [][Next]_vars

NextCmp ==
    \/ derive_float_eq_attribute
    \/ derive_float_eq_all
    \/ CallFloatEq
    \/ CallFloatEqAll

SpecCmp == InitCmp /\ [][NextCmp]_vars

\* ------------------------------------------------------------------ properties

EqMethods == {"eq_abs", "eq_rmax", "eq_rmin", "eq_r1st", "eq_r2nd", "eq_ulps"}
EqAllMethods ==
    {"eq_abs_all", "eq_rmax_all", "eq_rmin_all", "eq_r1st_all", "eq_r2nd_all", "eq_ulps_all"}

\* The outputs of the derives that succeeded.
EmittedAt == {k \in DOMAIN out : out[k].res.ok}
ImplAt(k) == out[k].res.val.impl

IsStruct == item.kind \in {"Named", "Tuple", "Unit"}
Named(name) == \E i \in DOMAIN args : args[i].name = name
Given(name) == \E i \in DOMAIN args : args[i].name = name /\ args[i].wellformed
Malformed(name) == \E i \in DOMAIN args : args[i].name = name /\ ~args[i].wellformed
ValueOf(name) == args[CHOOSE i \in DOMAIN args : args[i].name = name].value

\* C1: for a struct with no field (named, positional or unit) the body of
\* each of the six FloatEq methods and of the six FloatEqAll methods is the
\* literal `true`, and a call of any of them returns true whatever the
\* operands and the tolerance.
C1_EmptyStructComparesTrue ==
    item.fields = <<>> =>
        /\ \A k \in EmittedAt :
            /\ out[k].trait = "FloatEq" =>
                /\ DOMAIN ImplAt(k).methods = EqMethods
                /\ \A m \in EqMethods : ImplAt(k).methods[m] = <<"true">>
            /\ out[k].trait = "FloatEqAll" =>
                /\ DOMAIN ImplAt(k).methods = EqAllMethods
                /\ \A m \in EqAllMethods : ImplAt(k).methods[m] = <<"true">>
        /\ lastCall # NoCall => lastCall.ret = "true"

C1_Witness ==
    /\ item.kind = "Tuple"
    /\ item.fields = <<>>
    /\ lastCall.trait = "FloatEqAll"
    /\ lastCall.method = "eq_ulps_all"
    /\ lastCall.ret = "true"

\* The call the i-th field contributes to method m: on self.<field>, with
\* &other.<field> and the field's own tolerance (shared: the one max_diff).
CallOn(f, m, shared) ==
    <<"self", ".", f.name, ".", m, "(", "&", "other", ".", f.name, ",">>
    \o (IF shared THEN <<"max_diff">> ELSE <<"&", "max_diff", ".", f.name>>)
    \o <<")">>

RECURSIVE ConjunctionFrom(_, _, _)
ConjunctionFrom(i, m, shared) ==
    IF i = Len(item.fields) THEN CallOn(item.fields[i], m, shared)
    ELSE CallOn(item.fields[i], m, shared) \o <<"&&">> \o ConjunctionFrom(i + 1, m, shared)

\* The fields a left-to-right, short-circuit evaluation looks at: all of
\* them up to the first whose comparison is false.
LookedAt(results) ==
    LET names == [i \in DOMAIN item.fields |-> item.fields[i].name]
        falses == {i \in DOMAIN names : ~results[names[i]]}
    IN  IF falses = {} THEN names
        ELSE SubSeq(names, 1, CHOOSE i \in falses : \A j \in falses : i <= j)

\* C2: for a struct with at least one field the body of every comparison
\* method is the &&-conjunction of one call per field, in declaration order,
\* each on self.<field> with &other.<field> and &max_diff.<field> (FloatEq)
\* or max_diff (FloatEqAll); a call returns true iff every field's
\* comparison does, fields compared left to right up to the first false one.
C2_ConjunctionOfFieldCalls ==
    Len(item.fields) >= 1 =>
        /\ \A k \in EmittedAt :
            /\ out[k].trait = "FloatEq" =>
                /\ DOMAIN ImplAt(k).methods = EqMethods
                /\ \A m \in EqMethods : ImplAt(k).methods[m] = ConjunctionFrom(1, m, FALSE)
            /\ out[k].trait = "FloatEqAll" =>
                /\ DOMAIN ImplAt(k).methods = EqAllMethods
                /\ \A m \in EqAllMethods : ImplAt(k).methods[m] = ConjunctionFrom(1, m, TRUE)
        /\ lastCall # NoCall =>
            /\ lastCall.ret = "true" <=> \A f \in FieldNamesOf(item) : lastCall.results[f]
            /\ lastCall.ret \in {"true", "false"}
            /\ lastCall.evaluated = LookedAt(lastCall.results)

C2_Witness ==
    /\ item.kind = "Named"
    /\ Len(item.fields) = 2
    /\ lastCall.trait = "FloatEq"
    /\ ~lastCall.results[item.fields[1].name]
    /\ lastCall.results[item.fields[2].name]
    /\ lastCall.ret = "false"
    /\ lastCall.evaluated = <<item.fields[1].name>>

\* What derive_float_eq returned, once it has run on a struct.
AttrRan == mode = "attr" /\ pc # "start" /\ IsStruct

\* The help text that suggests `param = "<TypeName><suffix>"`.
Suggests(msg, param, suffix) ==
    msg[Len(msg)]
        = "help: try specifying '" \o param \o " = \"" \o item.ident \o suffix
          \o "\"' in 'derive_float_eq'."

\* C3: without an argument named `ulps_epsilon`, derive_float_eq fails with
\* the missing-parameter error that suggests `ulps_epsilon = "<TypeName>Ulps"`;
\* with `ulps_epsilon` given and no argument named `debug_ulps_diff`, with the
\* one that suggests `debug_ulps_diff = "<TypeName>DebugUlpsDiff"`; with both
\* absent the one error returned is the `ulps_epsilon` one.
C3_MissingRequiredParameter ==
    AttrRan =>
        /\ ~Named("ulps_epsilon") =>
            /\ ~attrOut.ok
            /\ attrOut.err.kind = "MissingRequiredParameter"
            /\ attrOut.err.param = "ulps_epsilon"
            /\ Suggests(attrOut.err.msg, "ulps_epsilon", "Ulps")
            /\ item.ident = "P" =>
                attrOut.err.msg[2]
                    = "help: try specifying 'ulps_epsilon = \"PUlps\"' in 'derive_float_eq'."
        /\ Given("ulps_epsilon") /\ ~Named("debug_ulps_diff") =>
            /\ ~attrOut.ok
            /\ attrOut.err.kind = "MissingRequiredParameter"
            /\ attrOut.err.param = "debug_ulps_diff"
            /\ Suggests(attrOut.err.msg, "debug_ulps_diff", "DebugUlpsDiff")
            /\ item.ident = "Q" =>
                attrOut.err.msg[2]
                    = "help: try specifying 'debug_ulps_diff = \"QDebugUlpsDiff\"' in 'derive_float_eq'."
        /\ ~attrOut.ok => pc = "done" /\ pending = <<>> /\ out = <<>>

C3_Witness ==
    /\ AttrRan
    /\ ~Named("ulps_epsilon")
    /\ ~Named("debug_ulps_diff")
    /\ Given("all_epsilon")
    /\ attrOut.err.param = "ulps_epsilon"

FourTraits ==
    <<"float_eq::FloatEqUlpsEpsilon", "float_eq::FloatEq",
      "float_eq::FloatEqDebugUlpsDiff", "float_eq::AssertFloatEq">>
SixTraits == FourTraits \o <<"float_eq::FloatEqAll", "float_eq::AssertFloatEqAll">>

\* C4: with both required parameters given, derive_float_eq succeeds and
\* requests the four derives FloatEqUlpsEpsilon, FloatEq, FloatEqDebugUlpsDiff,
\* AssertFloatEq when there is no `all_epsilon`, and those four plus FloatEqAll
\* and AssertFloatEqAll when `all_epsilon` is given.
C4_FourOrSixTraits ==
    AttrRan /\ Given("ulps_epsilon") /\ Given("debug_ulps_diff") =>
        /\ attrOut.ok
        /\ ~Named("all_epsilon") => attrOut.val.derive = FourTraits
        /\ Given("all_epsilon") => attrOut.val.derive = SixTraits

C4_Witness ==
    /\ AttrRan
    /\ Len(args) = 2
    /\ attrOut.ok
    /\ Len(attrOut.val.derive) = 4
    /\ pc = "done"
    /\ Len(out) = 4

\* C5: a failing expansion of #[derive_float_eq] emits none of the companion
\* types and impls: when derive_float_eq fails no derive runs, and when the
\* expansion is over either every requested derive has emitted its output or
\* none has.
C5_AllOrNothing ==
    mode = "attr" =>
        /\ ~attrOut.ok => out = <<>>
        /\ pc = "done" =>
            \/ EmittedAt = {}
            \/ attrOut.ok /\ EmittedAt = DOMAIN out /\ Len(out) = Len(attrOut.val.derive)

C5_Witness ==
    /\ mode = "attr"
    /\ pc = "done"
    /\ attrOut.ok
    /\ Malformed("all_epsilon")
    /\ Len(out) = 4
    /\ EmittedAt = {}

RECURSIVE CompanionFields(_, _)
\* The fields of a companion type from the i-th on: `name: W<T>,` for a named
\* struct, `W<T>,` for a tuple struct.
CompanionFields(i, wrapper) ==
    IF i > Len(item.fields) THEN <<>>
    ELSE (IF item.kind = "Named" THEN <<item.fields[i].name, ":">> ELSE <<>>)
         \o <<wrapper, "<", item.fields[i].ty, ">", ",">>
         \o CompanionFields(i + 1, wrapper)

\* The companion type of the declaration, named ty_name.
Mirror(ty_name, wrapper) ==
    item.vis \o <<"struct", ty_name>>
    \o (CASE item.kind = "Named" -> <<"{">> \o CompanionFields(1, wrapper) \o <<"}">>
          [] item.kind = "Tuple" -> <<"(">> \o CompanionFields(1, wrapper) \o <<")", ";">>
          [] OTHER -> <<";">>)

\* An emitted companion: one type of the declaration's shape, and one impl
\* that binds the associated type to it.
IsCompanion(emitted, trait_name, assoc, ty_name, wrapper) ==
    /\ Len(emitted.decls) = 1
    /\ emitted.decls[1].derive = <<"Clone", "Copy", "Debug", "PartialEq">>
    /\ emitted.decls[1].ty = Mirror(ty_name, wrapper)
    /\ emitted.impl.trait = "float_eq::" \o trait_name
    /\ emitted.impl.for = item.ident
    /\ emitted.impl.types = <<<<assoc, ty_name>>>>

\* C6: the companion types named by `ulps_epsilon` and `debug_ulps_diff` have
\* the shape of the struct (named, positional, or a field-less marker), its
\* fields in order with every type T replaced by UlpsEpsilon<T> or
\* DebugUlpsDiff<T>, its visibility, derive Clone, Copy, Debug and PartialEq,
\* and come with the one impl that binds the struct's associated type to them.
C6_CompanionsMirrorShape ==
    \A k \in EmittedAt :
        /\ out[k].trait = "FloatEqUlpsEpsilon" =>
            IsCompanion(out[k].res.val, "FloatEqUlpsEpsilon", "UlpsEpsilon",
                        ValueOf("ulps_epsilon"), "float_eq::UlpsEpsilon")
        /\ out[k].trait = "FloatEqDebugUlpsDiff" =>
            IsCompanion(out[k].res.val, "FloatEqDebugUlpsDiff", "DebugUlpsDiff",
                        ValueOf("debug_ulps_diff"), "float_eq::DebugUlpsDiff")

C6_Witness ==
    /\ item.kind = "Tuple"
    /\ Len(item.fields) = 2
    /\ item.vis = <<"pub">>
    /\ \E k \in EmittedAt :
        /\ out[k].trait = "FloatEqDebugUlpsDiff"
        /\ out[k].res.val.decls[1].ty
            = <<"pub", "struct", ValueOf("debug_ulps_diff"), "(",
                "float_eq::DebugUlpsDiff", "<", "f32", ">", ",",
                "float_eq::DebugUlpsDiff", "<", "f64", ">", ",", ")", ";">>

\* The value the i-th field gets in method m: the same-named method of the
\* field, on self.<field> with &other.<field> and the tolerance, if any.
FieldValue(f, m, tol) ==
    <<"self", ".", f.name, ".", m, "(", "&", "other", ".", f.name>>
    \o (CASE tol = "none" -> <<>>
          [] tol = "field" -> <<",", "&", "max_diff", ".", f.name>>
          [] OTHER -> <<",", "max_diff">>)
    \o <<")">>

RECURSIVE LabelledValues(_, _, _)
\* `label: value,` for every field from the i-th on, the label being the
\* field's name (its index in a tuple struct).
LabelledValues(i, m, tol) ==
    IF i > Len(item.fields) THEN <<>>
    ELSE <<item.fields[i].name, ":">> \o FieldValue(item.fields[i], m, tol) \o <<",">>
         \o LabelledValues(i + 1, m, tol)

RECURSIVE PositionalValues(_, _, _)
\* `value,` for every field from the i-th on.
PositionalValues(i, m, tol) ==
    IF i > Len(item.fields) THEN <<>>
    ELSE FieldValue(item.fields[i], m, tol) \o <<",">> \o PositionalValues(i + 1, m, tol)

\* The constructor a value-producing method builds its result with, and the
\* tolerance its fields are given.
CtorOf(m) ==
    CASE m = "debug_ulps_diff" -> ValueOf("debug_ulps_diff")
      [] m = "debug_ulps_epsilon" -> ValueOf("ulps_epsilon")
      [] m = "debug_ulps_all_epsilon" -> "::float_eq::UlpsEpsilon::<Self::AllDebugEpsilon>"
      [] OTHER -> "Self"

DiffMethods == {"debug_abs_diff", "debug_ulps_diff"}
EpsMethods ==
    {"debug_abs_epsilon", "debug_rmax_epsilon", "debug_rmin_epsilon",
     "debug_r1st_epsilon", "debug_r2nd_epsilon", "debug_ulps_epsilon"}
AllEpsMethods ==
    {"debug_abs_all_epsilon", "debug_rmax_all_epsilon", "debug_rmin_all_epsilon",
     "debug_r1st_all_epsilon", "debug_r2nd_all_epsilon", "debug_ulps_all_epsilon"}

TolOf(m) == IF m \in DiffMethods THEN "none" ELSE IF m \in EpsMethods THEN "field" ELSE "shared"

\* The constructor expression in the brace form, whatever the shape.
BraceForm(m) == <<CtorOf(m), "{">> \o LabelledValues(1, m, TolOf(m)) \o <<"}">>

\* The constructor expression has the form of the declaration's shape.
HasShapeForm(m, body) ==
    CASE item.kind = "Named" -> body = BraceForm(m)
      [] item.kind = "Tuple" ->
            body = <<CtorOf(m), "(">> \o PositionalValues(1, m, TolOf(m)) \o <<")">>
      [] OTHER -> body \in {<<CtorOf(m)>>, <<CtorOf(m), "{", "}">>}

HasBraceForm(m, body) == body = BraceForm(m)

\* The value-producing methods emitted, the body of each as required.
ValueMethodsAre(required(_, _)) ==
    \A k \in EmittedAt :
        /\ out[k].trait = "AssertFloatEq" =>
            /\ DOMAIN ImplAt(k).methods = DiffMethods \cup EpsMethods
            /\ \A m \in DiffMethods \cup EpsMethods : required(m, ImplAt(k).methods[m])
        /\ out[k].trait = "AssertFloatEqAll" =>
            /\ DOMAIN ImplAt(k).methods = AllEpsMethods
            /\ \A m \in AllEpsMethods : required(m, ImplAt(k).methods[m])

\* C7 as stated: the constructor expression of every value-producing method
\* of AssertFloatEq and AssertFloatEqAll has the form of the struct's shape
\* (`name: value` in braces for named fields, positional construction for
\* positional fields, the bare marker for an empty struct), one value per
\* field, in declaration order, computed by the same-named per-field method.
C7_ConstructorMatchesShape == ValueMethodsAre(HasShapeForm)

\* C7 as amended: the constructor expression of every value-producing method
\* is the brace form `Ctor { label: value, ... }` for every shape, the label
\* being the field's name, or its index in a positional struct, and nothing
\* between the braces for a struct without fields; one value per field, in
\* declaration order, computed by the same-named per-field method.
C7_ConstructorIsBraceForm == ValueMethodsAre(HasBraceForm)

C7_Witness ==
    /\ item.kind = "Tuple"
    /\ Len(item.fields) = 2
    /\ \E k \in EmittedAt :
        /\ out[k].trait = "AssertFloatEqAll"
        /\ ImplAt(k).methods["debug_rmin_all_epsilon"]
            = <<"Self", "{",
                "0", ":", "self", ".", "0", ".", "debug_rmin_all_epsilon", "(",
                    "&", "other", ".", "0", ",", "max_diff", ")", ",",
                "1", ":", "self", ".", "1", ".", "debug_rmin_all_epsilon", "(",
                    "&", "other", ".", "1", ",", "max_diff", ")", ",",
                "}">>

C9_ExtractorCalledOnce ==
    mode = "attr" /\ pc = "done" /\ attrOut.ok =>
        /\ Len(calls) = 1
        /\ calls[1].by = "derive_float_eq"

\* C9 as amended: derive_float_eq never calls the field shape extractor; it
\* re-emits the declaration under #[derive(..)], and every derive requested
\* calls the extractor once itself, so the extractor is called once per
\* derive (four or six times), the outputs following in the order of the
\* derive list.
C9_ExtractorCalledPerDerive ==
    mode = "attr" =>
        /\ \A i \in DOMAIN calls : calls[i].by # "derive_float_eq"
        /\ Len(calls) = Len(out)
        /\ \A i \in DOMAIN calls :
            /\ calls[i].fn = "read::all_fields_info"
            /\ calls[i].by = out[i].trait
            /\ "float_eq::" \o out[i].trait = attrOut.val.derive[i]
        /\ pc = "done" /\ attrOut.ok => Len(calls) = Len(attrOut.val.derive)

C9_Witness ==
    /\ mode = "attr"
    /\ pc = "done"
    /\ attrOut.ok
    /\ Len(calls) = 6
    /\ EmittedAt = 1..6

\* C10: derive_float_eq decides whether a parameter is given by name, over
\* the arguments that parse as name/type pairs: a malformed `ulps_epsilon` or
\* `debug_ulps_diff` is reported as the missing parameter and never as a
\* malformed value, a malformed `all_epsilon` yields the four derives, and on
\* success the struct and the whole argument list are re-emitted unchanged
\* and in order under #[float_eq(..)].
C10_PresenceByParsedName ==
    AttrRan =>
        /\ ~attrOut.ok => attrOut.err.kind = "MissingRequiredParameter"
        /\ Malformed("ulps_epsilon") => ~attrOut.ok /\ attrOut.err.param = "ulps_epsilon"
        /\ Given("ulps_epsilon") /\ Malformed("debug_ulps_diff") =>
            ~attrOut.ok /\ attrOut.err.param = "debug_ulps_diff"
        /\ Given("ulps_epsilon") /\ Given("debug_ulps_diff") /\ Malformed("all_epsilon") =>
            attrOut.ok /\ attrOut.val.derive = FourTraits
        /\ attrOut.ok => attrOut.val.item = item /\ attrOut.val.float_eq = args

C10_Witness ==
    /\ AttrRan
    /\ attrOut.ok
    /\ Len(args) = 3
    /\ args[1].name = "all_epsilon"
    /\ ~args[1].wellformed
    /\ attrOut.val.float_eq[1] = args[1]
    /\ Len(attrOut.val.derive) = 4

====
